---- MODULE Spec2Model ----
(***************************************************************************)
(* Model of gupload.gupload (lib/cli.py): resolution of the command-line   *)
(* path arguments into the ordered list of workouts, followed by the       *)
(* login / upload / set-name / set-type loop against Garmin Connect.       *)
(*                                                                         *)
(* A path is a sequence of components; an absolute path starts with "/".   *)
(* The empty sequence is the empty string.  The file system is a function  *)
(* from the absolute path of each directory to its os.listdir() listing.   *)
(***************************************************************************)
EXTENDS Integers, Sequences, FiniteSets, TLC

\* Longest list of command-line path arguments explored.
MaxArgs == 2

\* Python's None for the optional -a / -t options.
None == "None"

\* Truth value of an optional string in `if workout.name:`.
Truthy(s) == s # None /\ s # ""

Cwd == <<"/">>

\* The working directory without and with a file literally named "*.fit".
DirListing == <<"y.txt", "x.gpx", "z.csv", "s", "w.FIT">>

FsPlain ==
  (<<"/">> :> <<"m.csv", "a.fit", "d", "b.TCX", "n.txt", "k.CSV", "e">>)
  @@ (<<"/", "d">> :> DirListing)
  @@ (<<"/", "d", "s">> :> <<"q.fit">>)
  @@ (<<"/", "e">> :> <<>>)

FsStar ==
  (<<"/">> :> <<"m.csv", "a.fit", "*.fit", "d", "b.TCX", "n.txt", "k.CSV", "e">>)
  @@ (<<"/", "d">> :> DirListing)
  @@ (<<"/", "d", "s">> :> <<"q.fit">>)
  @@ (<<"/", "e">> :> <<>>)

Worlds == {FsPlain, FsStar}

\* Command-line arguments: file names, list files, directories, wildcards.
ArgNames ==
  {"a.fit", "m.csv", "k.CSV", "d", "e", "*.fit", "k*", "nope.fit"}

NameOptions == {None, "Morning Ride"}
TypeOptions == {None, "hiking"}

\* Rows of the csv list files (csv.DictReader over filename,name,type).
CsvRows(abs) ==
  IF abs = <<"/", "m.csv">> THEN
    << [filename |-> <<"a.fit">>, name |-> "Lake Loop", type |-> "cycling"],
       [filename |-> <<"missing.fit">>, name |-> "Ghost", type |-> "running"],
       [filename |-> <<"/", "d", "w.FIT">>, name |-> "", type |-> ""] >>
  ELSE IF abs = <<"/", "k.CSV">> THEN
    << [filename |-> <<>>, name |-> "Empty", type |-> "running"],
       [filename |-> <<"n.txt">>, name |-> "Notes", type |-> "other"] >>
  ELSE <<>>

VARIABLES
  fs,            \* the file system the run sees
  paths,         \* options.paths
  optName,       \* options.name as given on the command line
  activityName,  \* self.activityName
  activityType,  \* self.activityType
  filenames, dirnames, listfiles, workouts,
  fileOrigin, dirOrigin, listOrigin, origin,   \* provenance of each entry
  pc, i, j,      \* position in gupload() and its loop indices
  status, id_msg, nstat, tstat,
  calls,         \* calls made on the UploadGarmin object, in order
  report,        \* lines printed, in order
  err            \* message of the IOError raised, or None

vars == <<fs, paths, optName, activityName, activityType,
          filenames, dirnames, listfiles, workouts,
          fileOrigin, dirOrigin, listOrigin, origin,
          pc, i, j, status, id_msg, nstat, tstat, calls, report, err>>

----------------------------------------------------------------------------
\* os.path and glob helpers

InSeq(x, s) == \E k \in 1..Len(s) : s[k] = x

\* os.path.splitext(name)[1] of the last component
SplitExt(p) ==
  IF p = <<>> THEN ""
  ELSE LET name == p[Len(p)] IN
    CASE name \in {"a.fit", "*.fit", "nope.fit", "missing.fit", "q.fit"} -> ".fit"
      [] name = "w.FIT" -> ".FIT"
      [] name = "b.TCX" -> ".TCX"
      [] name = "x.gpx" -> ".gpx"
      [] name \in {"n.txt", "y.txt"} -> ".txt"
      [] name \in {"m.csv", "z.csv"} -> ".csv"
      [] name = "k.CSV" -> ".CSV"
      [] OTHER -> ""

\* str.lower() on an extension
Lower(ext) ==
  CASE ext = ".FIT" -> ".fit"
    [] ext = ".TCX" -> ".tcx"
    [] ext = ".GPX" -> ".gpx"
    [] ext = ".CSV" -> ".csv"
    [] OTHER -> ext

VALID_GARMIN_FILE_EXTENSIONS == {".tcx", ".fit", ".gpx"}

abspath(p) == IF p # <<>> /\ p[1] = "/" THEN p ELSE Cwd \o p

join(dirname, name) == dirname \o <<name>>

isdir(p) == p # <<>> /\ abspath(p) \in DOMAIN fs

isfile(p) ==
  /\ p # <<>>
  /\ LET a == abspath(p) IN
       /\ Len(a) >= 2
       /\ a \notin DOMAIN fs
       /\ SubSeq(a, 1, Len(a) - 1) \in DOMAIN fs
       /\ InSeq(a[Len(a)], fs[SubSeq(a, 1, Len(a) - 1)])

listdir(dirname) == fs[dirname]

has_magic(name) == name \in {"*.fit", "k*"}

\* fnmatch of a name in the working directory against a wildcard argument
fnmatch(name, pat) ==
  CASE pat = "*.fit" -> SplitExt(<<name>>) = ".fit"
    [] pat = "k*" -> name = "k.CSV"
    [] OTHER -> name = pat

RECURSIVE AsPaths(_)
AsPaths(names) ==
  IF names = <<>> THEN <<>> ELSE <<<<Head(names)>>>> \o AsPaths(Tail(names))

\* glob.glob(fileArg) for a single-component argument
glob(fileArg) ==
  IF has_magic(fileArg[1])
  THEN AsPaths(SelectSeq(listdir(Cwd), LAMBDA n : fnmatch(n, fileArg[1])))
  ELSE IF isfile(fileArg) \/ isdir(fileArg) THEN <<fileArg>> ELSE <<>>

checkFile(filename) ==
  IF isfile(filename)
  THEN Lower(SplitExt(filename)) \in VALID_GARMIN_FILE_EXTENSIONS
  ELSE FALSE

checkListFile(filename) ==
  Lower(SplitExt(filename)) = ".csv" /\ isfile(filename)

workoutTuple(f, n, t) == [filename |-> f, name |-> n, type |-> t]

----------------------------------------------------------------------------
RECURSIVE SeqsUpTo(_, _)
SeqsUpTo(S, n) ==
  IF n = 0 THEN {<<>>}
  ELSE LET R == SeqsUpTo(S, n - 1) IN
         R \cup {Append(s, x) : s \in R, x \in S}

Init ==
  /\ fs \in Worlds
  /\ paths \in SeqsUpTo({<<a>> : a \in ArgNames}, MaxArgs)
  /\ optName \in NameOptions
  /\ activityName = optName
  /\ activityType \in TypeOptions
  /\ filenames = <<>> /\ dirnames = <<>> /\ listfiles = <<>> /\ workouts = <<>>
  /\ fileOrigin = <<>> /\ dirOrigin = <<>> /\ listOrigin = <<>> /\ origin = <<>>
  /\ pc = "args" /\ i = 1 /\ j = 1
  /\ status = None /\ id_msg = <<None, 0>> /\ nstat = None /\ tstat = None
  /\ calls = <<>> /\ report = <<>> /\ err = None

Resolved == <<fs, paths, optName, activityName, activityType,
              filenames, dirnames, listfiles, workouts,
              fileOrigin, dirOrigin, listOrigin, origin>>
Locals == <<status, id_msg, nstat, tstat>>

\* One pass of the inner loop over glob.glob(fileArg).
ClassifyWildcard ==
  /\ pc = "args" /\ i <= Len(paths) /\ j <= Len(glob(paths[i]))
  /\ LET fileArg == paths[i]
         wildcard == glob(paths[i])[j]
     IN IF checkFile(fileArg) THEN
          /\ filenames' = Append(filenames, fileArg)
          /\ fileOrigin' = Append(fileOrigin, [kind |-> "file", arg |-> i, g |-> j, k |-> 0])
          /\ UNCHANGED <<listfiles, listOrigin, dirnames, dirOrigin>>
        ELSE IF checkListFile(wildcard) THEN
          /\ listfiles' = Append(listfiles, wildcard)
          /\ listOrigin' = Append(listOrigin, [arg |-> i, g |-> j])
          /\ UNCHANGED <<filenames, fileOrigin, dirnames, dirOrigin>>
        ELSE IF isdir(wildcard) THEN
          /\ dirnames' = Append(dirnames, abspath(wildcard))
          /\ dirOrigin' = Append(dirOrigin, [arg |-> i, g |-> j])
          /\ UNCHANGED <<filenames, fileOrigin, listfiles, listOrigin>>
        ELSE UNCHANGED <<filenames, fileOrigin, listfiles, listOrigin, dirnames, dirOrigin>>
  /\ j' = j + 1
  /\ UNCHANGED <<fs, paths, optName, activityName, activityType, workouts, origin,
                 pc, i, Locals, calls, report, err>>

\* The wildcards of fileArg are exhausted: next argument, or leave the loop.
NextArg ==
  /\ pc = "args"
  /\ \/ /\ i <= Len(paths) /\ j > Len(glob(paths[i]))
        /\ i' = i + 1 /\ j' = 1 /\ pc' = pc
     \/ /\ i > Len(paths)
        /\ i' = 1 /\ j' = 1 /\ pc' = "dirs"
  /\ UNCHANGED <<Resolved, Locals, calls, report, err>>

\* Variant: every directory entry is taken without checkFile.
ExpandDir_NoCheck ==
  /\ pc = "dirs" /\ i <= Len(dirnames) /\ j <= Len(listdir(dirnames[i]))
  /\ filenames' = Append(filenames, join(dirnames[i], listdir(dirnames[i])[j]))
  /\ fileOrigin' = Append(fileOrigin,
         [kind |-> "dir", arg |-> dirOrigin[i].arg, g |-> dirOrigin[i].g, k |-> j])
  /\ j' = j + 1
  /\ UNCHANGED <<fs, paths, optName, activityName, activityType, dirnames, listfiles,
                 workouts, dirOrigin, listOrigin, origin,
                 pc, i, Locals, calls, report, err>>

\* One pass of the inner loop over os.listdir(dirname).
ExpandDir ==
  /\ pc = "dirs" /\ i <= Len(dirnames) /\ j <= Len(listdir(dirnames[i]))
  /\ LET filename == join(dirnames[i], listdir(dirnames[i])[j])
     IN IF checkFile(filename) THEN
          /\ filenames' = Append(filenames, filename)
          /\ fileOrigin' = Append(fileOrigin,
                 [kind |-> "dir", arg |-> dirOrigin[i].arg, g |-> dirOrigin[i].g, k |-> j])
        ELSE UNCHANGED <<filenames, fileOrigin>>
  /\ j' = j + 1
  /\ UNCHANGED <<fs, paths, optName, activityName, activityType, dirnames, listfiles,
                 workouts, dirOrigin, listOrigin, origin,
                 pc, i, Locals, calls, report, err>>

NextDir ==
  /\ pc = "dirs"
  /\ \/ /\ i <= Len(dirnames) /\ j > Len(listdir(dirnames[i]))
        /\ i' = i + 1 /\ j' = 1 /\ pc' = pc
     \/ /\ i > Len(dirnames)
        /\ i' = 1 /\ j' = 1 /\ pc' = "option"
  /\ UNCHANGED <<Resolved, Locals, calls, report, err>>

\* Variant: the -a option is never dropped.
IgnoreName_Never ==
  /\ pc = "option"
  /\ activityName' = activityName
  /\ pc' = "build"
  /\ UNCHANGED <<fs, paths, optName, activityType, filenames, dirnames, listfiles,
                 workouts, fileOrigin, dirOrigin, listOrigin, origin,
                 i, j, Locals, calls, report, err>>

\* -a applies only when a single fitness file is given.
IgnoreName ==
  /\ pc = "option"
  /\ activityName' = IF Len(filenames) # 1 /\ Truthy(activityName) THEN None
                     ELSE activityName
  /\ pc' = "build"
  /\ UNCHANGED <<fs, paths, optName, activityType, filenames, dirnames, listfiles,
                 workouts, fileOrigin, dirOrigin, listOrigin, origin,
                 i, j, Locals, calls, report, err>>

\* Variant: the workouts are built from options.name instead of self.activityName.
BuildWorkouts_RawOption ==
  /\ pc = "build"
  /\ workouts' = [k \in 1..Len(filenames) |->
                    workoutTuple(filenames[k], optName, activityType)]
  /\ origin' = fileOrigin
  /\ pc' = "lists" /\ i' = 1 /\ j' = 1
  /\ UNCHANGED <<fs, paths, optName, activityName, activityType, filenames, dirnames,
                 listfiles, fileOrigin, dirOrigin, listOrigin,
                 Locals, calls, report, err>>

\* workouts = [workoutTuple(filename, activityName, activityType) for each filename]
BuildWorkouts ==
  /\ pc = "build"
  /\ workouts' = [k \in 1..Len(filenames) |->
                    workoutTuple(filenames[k], activityName, activityType)]
  /\ origin' = fileOrigin
  /\ pc' = "lists" /\ i' = 1 /\ j' = 1
  /\ UNCHANGED <<fs, paths, optName, activityName, activityType, filenames, dirnames,
                 listfiles, fileOrigin, dirOrigin, listOrigin,
                 Locals, calls, report, err>>

\* Variant: a valid row is put in front of the workouts instead of appended.
ReadRow_Prepend ==
  /\ pc = "lists" /\ i <= Len(listfiles)
  /\ j <= Len(CsvRows(abspath(listfiles[i])))
  /\ LET row == CsvRows(abspath(listfiles[i]))[j]
     IN IF checkFile(row.filename) THEN
          /\ workouts' = <<workoutTuple(row.filename, row.name, row.type)>> \o workouts
          /\ origin' = <<[kind |-> "csv", arg |-> listOrigin[i].arg,
                          g |-> listOrigin[i].g, k |-> j]>> \o origin
        ELSE UNCHANGED <<workouts, origin>>
  /\ j' = j + 1
  /\ UNCHANGED <<fs, paths, optName, activityName, activityType, filenames, dirnames,
                 listfiles, fileOrigin, dirOrigin, listOrigin,
                 pc, i, Locals, calls, report, err>>

\* Variant: a row becomes a workout without checkFile on its filename.
ReadRow_NoCheck ==
  /\ pc = "lists" /\ i <= Len(listfiles)
  /\ j <= Len(CsvRows(abspath(listfiles[i])))
  /\ LET row == CsvRows(abspath(listfiles[i]))[j]
     IN /\ workouts' = Append(workouts, workoutTuple(row.filename, row.name, row.type))
        /\ origin' = Append(origin,
               [kind |-> "csv", arg |-> listOrigin[i].arg, g |-> listOrigin[i].g, k |-> j])
  /\ j' = j + 1
  /\ UNCHANGED <<fs, paths, optName, activityName, activityType, filenames, dirnames,
                 listfiles, fileOrigin, dirOrigin, listOrigin,
                 pc, i, Locals, calls, report, err>>

\* One row of one csv list file.
ReadRow ==
  /\ pc = "lists" /\ i <= Len(listfiles)
  /\ j <= Len(CsvRows(abspath(listfiles[i])))
  /\ LET row == CsvRows(abspath(listfiles[i]))[j]
     IN IF checkFile(row.filename) THEN
          /\ workouts' = Append(workouts, workoutTuple(row.filename, row.name, row.type))
          /\ origin' = Append(origin,
                 [kind |-> "csv", arg |-> listOrigin[i].arg, g |-> listOrigin[i].g, k |-> j])
        ELSE UNCHANGED <<workouts, origin>>
  /\ j' = j + 1
  /\ UNCHANGED <<fs, paths, optName, activityName, activityType, filenames, dirnames,
                 listfiles, fileOrigin, dirOrigin, listOrigin,
                 pc, i, Locals, calls, report, err>>

NextList ==
  /\ pc = "lists"
  /\ \/ /\ i <= Len(listfiles) /\ j > Len(CsvRows(abspath(listfiles[i])))
        /\ i' = i + 1 /\ j' = 1 /\ pc' = pc
     \/ /\ i > Len(listfiles)
        /\ i' = 1 /\ j' = 1 /\ pc' = "check"
  /\ UNCHANGED <<Resolved, Locals, calls, report, err>>

\* Variant: the empty list of workouts is not rejected.
CheckEmpty_NoRaise ==
  /\ pc = "check"
  /\ pc' = "login" /\ err' = err
  /\ UNCHANGED <<Resolved, i, j, Locals, calls, report>>

\* if len(workouts) == 0: raise IOError('No valid files.')
CheckEmpty ==
  /\ pc = "check"
  /\ IF Len(workouts) = 0
     THEN pc' = "error" /\ err' = "No valid files."
     ELSE pc' = "login" /\ err' = err
  /\ UNCHANGED <<Resolved, i, j, Locals, calls, report>>

\* A call on the UploadGarmin object: the workout it was made for (0 for
\* login), its arguments and what it returned.
Call(op, job, args, ret) == [op |-> op, job |-> job, args |-> args, ret |-> ret]

\* Variant: the result of g.login is ignored.
Login_IgnoreResult ==
  /\ pc = "login"
  /\ \E ok \in BOOLEAN :
       calls' = Append(calls, Call("login", 0, <<>>, ok))
  /\ pc' = "upload" /\ err' = err
  /\ i' = 1
  /\ UNCHANGED <<Resolved, j, Locals, report>>

\* g.login(username, password)
Login ==
  /\ pc = "login"
  /\ \E ok \in BOOLEAN :
       /\ calls' = Append(calls, Call("login", 0, <<>>, ok))
       /\ IF ok THEN pc' = "upload" /\ err' = err
          ELSE pc' = "error" /\ err' = "LOGIN FAILED"
  /\ i' = 1
  /\ UNCHANGED <<Resolved, j, Locals, report>>

\* Variant: a failed upload ends the loop.
UploadFile_AbortOnFailure ==
  /\ pc = "upload" /\ i <= Len(workouts)
  /\ \E st \in {"SUCCESS", "FAIL"} :
       /\ status' = st
       /\ id_msg' = <<IF st = "SUCCESS" THEN "ID" ELSE "ERR", i>>
       /\ calls' = Append(calls, Call("upload_file", i, <<workouts[i].filename>>,
                                      <<st, <<IF st = "SUCCESS" THEN "ID" ELSE "ERR", i>>>>))
       /\ pc' = IF st = "SUCCESS" THEN "set_name" ELSE "done"
  /\ nstat' = "N/A" /\ tstat' = "N/A"
  /\ UNCHANGED <<Resolved, i, j, report, err>>

\* status, id_msg = g.upload_file(workout.filename)
UploadFile ==
  /\ pc = "upload" /\ i <= Len(workouts)
  /\ \E st \in {"SUCCESS", "FAIL"} :
       /\ status' = st
       /\ id_msg' = <<IF st = "SUCCESS" THEN "ID" ELSE "ERR", i>>
       /\ calls' = Append(calls, Call("upload_file", i, <<workouts[i].filename>>,
                                      <<st, <<IF st = "SUCCESS" THEN "ID" ELSE "ERR", i>>>>))
       /\ pc' = IF st = "SUCCESS" THEN "set_name" ELSE "print"
  /\ nstat' = "N/A" /\ tstat' = "N/A"
  /\ UNCHANGED <<Resolved, i, j, report, err>>

\* Variant: the name is reported as applied whatever set_workout_name returned.
SetWorkoutName_AlwaysName ==
  /\ pc = "set_name"
  /\ IF Truthy(workouts[i].name)
     THEN \E ok \in BOOLEAN :
            /\ calls' = Append(calls, Call("set_workout_name", i, <<id_msg, workouts[i].name>>, ok))
            /\ nstat' = workouts[i].name
     ELSE UNCHANGED <<calls, nstat>>
  /\ pc' = "set_type"
  /\ UNCHANGED <<Resolved, i, j, status, id_msg, tstat, report, err>>

\* if workout.name: g.set_workout_name(id_msg, workout.name)
SetWorkoutName ==
  /\ pc = "set_name"
  /\ IF Truthy(workouts[i].name)
     THEN \E ok \in BOOLEAN :
            /\ calls' = Append(calls, Call("set_workout_name", i, <<id_msg, workouts[i].name>>, ok))
            /\ nstat' = IF ok THEN workouts[i].name ELSE "FAIL!"
     ELSE UNCHANGED <<calls, nstat>>
  /\ pc' = "set_type"
  /\ UNCHANGED <<Resolved, i, j, status, id_msg, tstat, report, err>>

\* if workout.type: g.set_activity_type(id_msg, workout.type)
SetActivityType ==
  /\ pc = "set_type"
  /\ IF Truthy(workouts[i].type)
     THEN \E ok \in BOOLEAN :
            /\ calls' = Append(calls, Call("set_activity_type", i, <<id_msg, workouts[i].type>>, ok))
            /\ tstat' = IF ok THEN workouts[i].type ELSE "FAIL!"
     ELSE UNCHANGED <<calls, tstat>>
  /\ pc' = "print"
  /\ UNCHANGED <<Resolved, i, j, status, id_msg, nstat, report, err>>

\* print 'File: %s ID: %s Status: %s Name: %s Type: %s'
PrintStatus ==
  /\ pc = "print"
  /\ report' = Append(report, [filename |-> workouts[i].filename, id_msg |-> id_msg,
                               status |-> status, nstat |-> nstat, tstat |-> tstat])
  /\ i' = i + 1 /\ pc' = "upload"
  /\ UNCHANGED <<Resolved, j, Locals, calls, err>>

\* The for loop over workouts is exhausted; gupload() returns.
Return ==
  /\ pc = "upload" /\ i > Len(workouts)
  /\ pc' = "done"
  /\ UNCHANGED <<Resolved, i, j, Locals, calls, report, err>>

Next ==
  \/ ClassifyWildcard
  \/ NextArg
  \/ ExpandDir
  \/ NextDir
  \/ IgnoreName
  \/ BuildWorkouts
  \/ ReadRow
  \/ NextList
  \/ CheckEmpty
  \/ Login
  \/ UploadFile
  \/ SetWorkoutName
  \/ SetActivityType
  \/ PrintStatus
  \/ Return

Spec == Init /\ [][Next]_vars

TypeOK == pc \in {"args", "dirs", "option", "build", "lists", "check", "login",
                  "upload", "set_name", "set_type", "print", "done", "error"}
----------------------------------------------------------------------------
\* Positions of gupload()

\* The list of workouts is complete and about to be tested for emptiness.
BatchResolved == pc = "check"
\* The list of workouts is still being built, or has just been completed.
Resolving == pc \in {"args", "dirs", "option", "build", "lists", "check"}
AfterCheck == pc \notin {"args", "dirs", "option", "build", "lists", "check"}
InLoop == pc \in {"upload", "set_name", "set_type", "print", "done"}

CallsOf(op, job) == SelectSeq(calls, LAMBDA c : c.op = op /\ c.job = job)
UploadCalls == SelectSeq(calls, LAMBDA c : c.op = "upload_file")

\* Number of workouts whose upload has been called so far.
Attempted == IF pc \in {"upload", "done"} THEN i - 1 ELSE i

\* Indices 1..n that satisfy P, ascending.
IdxWhere(n, P(_)) == SelectSeq([k \in 1..n |-> k], P)

----------------------------------------------------------------------------
\* C1: after a successful login the loop calls upload_file once per workout,
\* in workout order, and prints one status line per workout, the k-th line
\* being for the k-th workout; whatever upload_file, set_workout_name and
\* set_activity_type return, the run never raises and ends with as many
\* lines as workouts.
C1_FailureIsolation ==
  /\ InLoop =>
       /\ Len(UploadCalls) = Attempted
       /\ \A k \in 1..Len(UploadCalls) :
            /\ UploadCalls[k].job = k
            /\ UploadCalls[k].args = <<workouts[k].filename>>
       /\ Len(report) = i - 1
       /\ \A k \in 1..Len(report) : report[k].filename = workouts[k].filename
       /\ err = None
  /\ pc = "done" => Len(report) = Len(workouts) /\ Len(UploadCalls) = Len(workouts)
  /\ (calls # <<>> /\ calls[1].ret = TRUE) => InLoop

\* A finished run whose first upload failed and whose second succeeded.
C1_Witness ==
  /\ pc = "done" /\ Len(report) >= 2
  /\ report[1].status = "FAIL" /\ report[2].status = "SUCCESS"

\* C2: login is the first call on the session and the only login; any other
\* call is made only after login returned True; when login fails the run
\* raises 'LOGIN FAILED' having made no other call and printed nothing.
C2_LoginFirst ==
  /\ \A k \in 1..Len(calls) : (calls[k].op = "login") <=> (k = 1)
  /\ Len(calls) > 1 => calls[1].ret = TRUE
  /\ report # <<>> => Len(calls) > 1
  /\ InLoop => Len(calls) >= 1
  /\ (calls # <<>> /\ calls[1].ret = FALSE) =>
       /\ pc = "error" /\ err = "LOGIN FAILED"
       /\ Len(calls) = 1 /\ report = <<>>
  /\ err = "LOGIN FAILED" => calls # <<>> /\ calls[1].ret = FALSE

\* Login failed with several workouts waiting.
C2_Witness ==
  /\ pc = "error" /\ err = "LOGIN FAILED" /\ Len(workouts) >= 2

\* What the status line of workout k must show for one annotate step.
AnnotateRecorded(k, op, value, outcome) ==
  LET cs == CallsOf(op, k)
      up == CallsOf("upload_file", k)
  IN /\ Len(up) = 1
     /\ report[k].status = up[1].ret[1]
     /\ report[k].id_msg = up[1].ret[2]
     /\ Len(cs) <= 1
     /\ (Len(cs) = 1) <=> (report[k].status = "SUCCESS" /\ Truthy(value))
     /\ Len(cs) = 1 => cs[1].args = <<up[1].ret[2], value>>
     /\ outcome = IF Len(cs) = 0 THEN "N/A"
                  ELSE IF cs[1].ret THEN value ELSE "FAIL!"

\* C3: for every printed workout, set_workout_name is called iff its upload
\* returned SUCCESS and it has a name, with the id that upload returned; the
\* printed name is the name on success, 'FAIL!' on failure and 'N/A' when
\* not called.  The same holds, independently, for set_activity_type.
C3_AnnotateGating ==
  \A k \in 1..Len(report) :
    /\ AnnotateRecorded(k, "set_workout_name", workouts[k].name, report[k].nstat)
    /\ AnnotateRecorded(k, "set_activity_type", workouts[k].type, report[k].tstat)

\* A workout whose name could not be set but whose type was.
C3_Witness ==
  \E k \in 1..Len(report) :
    /\ report[k].nstat = "FAIL!"
    /\ Truthy(workouts[k].type) /\ report[k].tstat = workouts[k].type

\* C4: when no workout results from the arguments the run raises
\* 'No valid files.' and no call is ever made on the session.
C4_EmptyBatchFatal ==
  Len(workouts) = 0 =>
    /\ calls = <<>> /\ report = <<>>
    /\ AfterCheck => pc = "error" /\ err = "No valid files."

\* An empty directory and a list file whose rows are all invalid.
C4_Witness ==
  /\ pc = "error" /\ err = "No valid files."
  /\ Len(paths) = 2 /\ paths[1] = <<"e">> /\ paths[2] = <<"k.CSV">>
  /\ Len(dirnames) = 1 /\ Len(listfiles) = 1

----------------------------------------------------------------------------
\* Provenance: what an origin record denotes on the command line.

\* The wildcard (glob candidate) an origin record points at.
WildcardOf(o) == glob(paths[o.arg])[o.g]

\* The path a workout with origin o was built from.
SourceOf(o) ==
  CASE o.kind = "file" -> paths[o.arg]
    [] o.kind = "dir" -> join(abspath(WildcardOf(o)), listdir(abspath(WildcardOf(o)))[o.k])
    [] o.kind = "csv" -> CsvRows(abspath(WildcardOf(o)))[o.k].filename

\* Workouts built from the filenames list (named files and directory entries).
FromFilenames(k) == origin[k].kind # "csv"

\* C5: when the filenames list (named files plus directory entries) has more
\* than one entry and -a was given, no workout built from it carries the -a
\* name (its name is None), while each carries the -t type.
C5_OverrideDroppedForMany ==
  (BatchResolved /\ Len(filenames) > 1 /\ Truthy(optName)) =>
    \A k \in 1..Len(filenames) :
      /\ workouts[k].filename = filenames[k]
      /\ workouts[k].name = None
      /\ workouts[k].name # optName
      /\ workouts[k].type = activityType

\* Several fitness files, with both -a and -t given.
C5_Witness ==
  /\ BatchResolved /\ Len(filenames) > 1
  /\ Truthy(optName) /\ Truthy(activityType)

\* C6 as stated: a workout carries the -a name only if the whole batch
\* (file workouts plus list-file workouts) has exactly one workout.
C6_OverrideOnlyInSingletonBatch ==
  BatchResolved =>
    \A k \in 1..Len(workouts) :
      (FromFilenames(k) /\ Truthy(optName) /\ workouts[k].name = optName)
        => Len(workouts) = 1

\* C6 amended: a workout from a list file carries the name of its row; a
\* workout from the filenames list carries a name only if it is the -a name
\* and the filenames list has exactly one entry, whatever the list files add.
C6_OverrideOnlyForSingleFilename ==
  BatchResolved =>
    \A k \in 1..Len(workouts) :
      IF FromFilenames(k)
      THEN workouts[k].name # None =>
             /\ workouts[k].name = optName
             /\ Len(filenames) = 1
      ELSE workouts[k].name = CsvRows(abspath(WildcardOf(origin[k])))[origin[k].k].name

\* One named file keeps the -a name although a list file adds workouts.
C6_Witness ==
  /\ BatchResolved /\ Len(filenames) = 1 /\ Len(workouts) > 1
  /\ Truthy(optName) /\ workouts[1].name = optName

\* Classification of one path, in the order activity file, list file, directory.
Classify(path) ==
  IF checkFile(path) THEN "activity"
  ELSE IF checkListFile(path) THEN "manifest"
  ELSE IF isdir(path) THEN "directory"
  ELSE "invalid"

RECURSIVE Candidates(_)
Candidates(args) ==
  IF args = <<>> THEN <<>> ELSE glob(Head(args)) \o Candidates(Tail(args))

\* Entries of filenames that came from the argument loop.
NamedFiles == SubSeq(filenames, 1, Cardinality({k \in 1..Len(fileOrigin) : fileOrigin[k].kind = "file"}))

\* C7: every candidate obtained by expanding an argument is classified on its
\* own: it goes to filenames iff it is itself a valid fitness file, else to
\* listfiles iff it is a list file, else to dirnames iff it is a directory.
C7_CandidatesClassifiedIndividually ==
  BatchResolved =>
    LET cands == Candidates(paths)
        dirs == SelectSeq(cands, LAMBDA c : Classify(c) = "directory")
    IN /\ NamedFiles = SelectSeq(cands, LAMBDA c : Classify(c) = "activity")
       /\ listfiles = SelectSeq(cands, LAMBDA c : Classify(c) = "manifest")
       /\ dirnames = [k \in 1..Len(dirs) |-> abspath(dirs[k])]

Rank(kind) == CASE kind = "file" -> 0 [] kind = "dir" -> 1 [] kind = "csv" -> 2

\* Lexicographic order on equally long tuples of integers.
RECURSIVE LexLess(_, _)
LexLess(a, b) ==
  IF a = <<>> THEN FALSE
  ELSE Head(a) < Head(b) \/ (Head(a) = Head(b) /\ LexLess(Tail(a), Tail(b)))

\* C8 as stated: list-file workouts come last; the other workouts follow the
\* order of the arguments that produced them, a directory's entries standing
\* at that directory's argument position.
C8_ArgumentOrder ==
  BatchResolved =>
    \A a, b \in 1..Len(workouts) :
      a < b =>
        LexLess(<<IF origin[a].kind = "csv" THEN 1 ELSE 0, origin[a].arg, origin[a].g, origin[a].k>>,
                <<IF origin[b].kind = "csv" THEN 1 ELSE 0, origin[b].arg, origin[b].g, origin[b].k>>)

\* C8 amended: workouts of named files come first, in argument order; then
\* the entries of the directories, in directory argument order and listing
\* order; then the rows of the list files, in argument order and row order.
C8_FilesThenDirsThenLists ==
  BatchResolved =>
    /\ Len(origin) = Len(workouts)
    /\ \A k \in 1..Len(workouts) : workouts[k].filename = SourceOf(origin[k])
    /\ \A a, b \in 1..Len(workouts) :
         a < b =>
           LexLess(<<Rank(origin[a].kind), origin[a].arg, origin[a].g, origin[a].k>>,
                   <<Rank(origin[b].kind), origin[b].arg, origin[b].g, origin[b].k>>)

\* A named file precedes the entries of a directory given before it.
C8_Witness ==
  /\ BatchResolved
  /\ \E a, b \in 1..Len(workouts) :
       /\ a < b /\ origin[a].kind = "file" /\ origin[b].kind = "dir"
       /\ origin[b].arg < origin[a].arg

\* The workouts that list file l contributed, in order.
WorkoutsOfList(l) ==
  LET idx == IdxWhere(Len(workouts), LAMBDA k :
               /\ origin[k].kind = "csv"
               /\ origin[k].arg = listOrigin[l].arg /\ origin[k].g = listOrigin[l].g)
  IN [x \in 1..Len(idx) |-> workouts[idx[x]]]

ValidRows(l) ==
  LET rows == SelectSeq(CsvRows(abspath(listfiles[l])), LAMBDA r : checkFile(r.filename))
  IN [x \in 1..Len(rows) |-> workoutTuple(rows[x].filename, rows[x].name, rows[x].type)]

\* C9: the filename of every workout is non-empty and passes checkFile; a
\* list-file row whose filename fails checkFile yields no workout, and the
\* remaining rows and list files are still processed.
C9_SourcePathValid ==
  /\ Resolving =>
       \A k \in 1..Len(workouts) :
         workouts[k].filename # <<>> /\ checkFile(workouts[k].filename)
  /\ BatchResolved =>
       \A l \in 1..Len(listfiles) : WorkoutsOfList(l) = ValidRows(l)

\* A valid row that follows an invalid row became a workout.
C9_Witness ==
  /\ BatchResolved
  /\ \E k \in 1..Len(workouts) : origin[k].kind = "csv" /\ origin[k].k = 3

\* The filenames of the workouts that directory d contributed, in order.
WorkoutsOfDir(d) ==
  LET idx == IdxWhere(Len(workouts), LAMBDA k :
               /\ origin[k].kind = "dir"
               /\ origin[k].arg = dirOrigin[d].arg /\ origin[k].g = dirOrigin[d].g)
  IN [x \in 1..Len(idx) |-> workouts[idx[x]].filename]

ValidChildren(d) ==
  LET names == listdir(dirnames[d])
      children == [x \in 1..Len(names) |-> join(dirnames[d], names[x])]
  IN SelectSeq(children, LAMBDA c : checkFile(c))

\* C10: every directory argument contributes exactly its direct entries
\* that pass checkFile, one workout each, in listing order; invalid entries,
\* csv entries (never read as list files) and entries of sub-directories
\* contribute nothing.
C10_DirectoryExpansion ==
  BatchResolved =>
    /\ \A a \in 1..Len(paths) :
         (~has_magic(paths[a][1]) /\ isdir(paths[a])) =>
           \E d \in 1..Len(dirnames) :
             dirOrigin[d] = [arg |-> a, g |-> 1] /\ dirnames[d] = abspath(paths[a])
    /\ \A d \in 1..Len(dirnames) : WorkoutsOfDir(d) = ValidChildren(d)
    /\ \A k \in 1..Len(workouts) :
         origin[k].kind = "dir" =>
           \E d \in 1..Len(dirnames) :
             /\ origin[k].arg = dirOrigin[d].arg /\ origin[k].g = dirOrigin[d].g
             /\ Len(workouts[k].filename) = Len(dirnames[d]) + 1
    /\ \A l \in 1..Len(listfiles), d \in 1..Len(dirnames) :
         LET a == abspath(listfiles[l]) IN SubSeq(a, 1, Len(a) - 1) # dirnames[d]

\* The directory with valid, invalid, csv and sub-directory entries was expanded.
C10_Witness ==
  /\ BatchResolved
  /\ \E d \in 1..Len(dirnames) :
       /\ dirnames[d] = <<"/", "d">>
       /\ Len(WorkoutsOfDir(d)) = 2
       /\ Len(listdir(dirnames[d])) = 5
====
